---- MODULE Spec2Model ----
(***************************************************************************)
(* Poll rooms: the vote ledger with its admission control (the vote route),*)
(* the poll read route, and the in-memory SSE connection registry with its  *)
(* broadcast (the stream route).                                            *)
(*                                                                          *)
(* Every `await prisma...` is one step: the store executes the query and    *)
(* the handler's continuation runs up to the next await.  Steps of          *)
(* different requests interleave freely, as on Node's event loop with a     *)
(* shared PostgreSQL store.                                                 *)
(***************************************************************************)
EXTENDS Integers, Sequences, FiniteSets, TLC

\* ------------------------------------------------------------------ bounds
NumVoteReqs == 2        \* vote submissions in one run
NumSubs == 2            \* stream (subscribe) requests in one run
MaxTicks == 3           \* clock advances in one run
MaxBeats == 1           \* heartbeats written to one open stream

\* ------------------------------------------------------- program constants
CooldownMs == 60 * 1000           \* Date.now() - 60 * 1000
TickMs == CooldownMs \div 2       \* granularity of the modelled clock

VReqs == 1..NumVoteReqs
Subs == 1..NumSubs
None == 0                         \* no set / no controller

\* Polls present in the store, with their option labels (immutable).
InitialPolls == [p1 |-> <<"A", "B">>, p2 |-> <<"A", "B", "C">>]

VARIABLES
    now,          \* wall clock / store clock, in ms
    polls,        \* Poll table: id -> options
    votes,        \* Vote table: set of rows, id = the request that created it
    vreq,         \* vote route: per request, its position and locals
    fetched,      \* poll route: the last response produced
    created,      \* create route: the last request and its response
    connections,  \* stream route: Map pollId -> Set object (None = no key)
    sets,         \* the Set objects, named by the controller that created them
    subs,         \* stream route: per request, its controller, timer, listener
    bcast,        \* broadcastPollUpdate invocations, one per vote request
    page          \* poll page: one browser tab, its state and EventSource

vars ==
    <<now, polls, votes, vreq, fetched, created, connections, sets, subs, bcast,
      page>>

\* ------------------------------------------------------ result aggregation
\* The lower bound of the guard written `> 0`.
RECURSIVE CountVotes_SkipsFirstOption(_, _)
CountVotes_SkipsFirstOption(vs, counts) ==
    IF vs = {} THEN counts
    ELSE LET v == CHOOSE x \in vs : TRUE
         IN  CountVotes_SkipsFirstOption(vs \ {v},
                IF v.optionIndex > 0 /\ v.optionIndex < Len(counts)
                THEN [counts EXCEPT ![v.optionIndex + 1] = @ + 1]
                ELSE counts)

\* voteCounts: new Array(n).fill(0); votes.forEach(v => if in bounds, ++)
RECURSIVE CountVotes(_, _)
CountVotes(vs, counts) ==
    IF vs = {} THEN counts
    ELSE LET v == CHOOSE x \in vs : TRUE
         IN  CountVotes(vs \ {v},
                IF v.optionIndex >= 0 /\ v.optionIndex < Len(counts)
                THEN [counts EXCEPT ![v.optionIndex + 1] = @ + 1]
                ELSE counts)

ZeroCounts(n) == [i \in 1..n |-> 0]

VotesOfPoll(vs, pollId) == {v \in vs : v.pollId = pollId}

\* { voteCounts, totalVotes: votes.length }
PollSnapshot(vs, pollId, nOptions) ==
    [voteCounts |-> CountVotes(VotesOfPoll(vs, pollId), ZeroCounts(nOptions)),
     totalVotes |-> Cardinality(VotesOfPoll(vs, pollId))]

NoSnapshot == [voteCounts |-> <<>>, totalVotes |-> 0]

RECURSIVE SumSeq(_)
SumSeq(s) == IF s = <<>> THEN 0 ELSE Head(s) + SumSeq(Tail(s))

\* ------------------------------------------------------------- vote route
\* Without the sign test: any number passes.
ValidOptionIndex_AnyNumber(isNumber, optionIndex) == isNumber

\* typeof optionIndex !== 'number' || optionIndex < 0   (negated)
ValidOptionIndex(isNumber, optionIndex) == isNumber /\ optionIndex >= 0

\* Without the sentinel test: 'server' passes.
ValidFingerprint_AcceptsSentinel(isString, fingerprint) ==
    isString /\ fingerprint # ""

\* !fingerprint || typeof fingerprint !== 'string' || fingerprint === 'server'
\* (negated)
ValidFingerprint(isString, fingerprint) ==
    isString /\ fingerprint # "" /\ fingerprint # "server"

\* x-forwarded-for?.split(',')[0].trim() || x-real-ip || 'unknown'
\* xff is the list of comma-separated entries, each already trimmed
\* (<<>>: header absent), xreal the x-real-ip header ("": absent).
IpAddress(xff, xreal) ==
    IF xff # <<>> /\ Head(xff) # "" THEN Head(xff)
    ELSE IF xreal # "" THEN xreal
    ELSE "unknown"

\* Off by one: `>` where the route has `>=`.
OptionInBounds_OffByOne(optionIndex, options) == optionIndex <= Len(options)

\* optionIndex >= poll.options.length   (negated)
OptionInBounds(optionIndex, options) == optionIndex < Len(options)

\* Wrong column: the fingerprint is looked up in ipAddress.
ExistingVoteByFingerprint_WrongColumn(vs, pollId, fingerprint) ==
    \E v \in vs : v.pollId = pollId /\ v.ipAddress = fingerprint

\* prisma.vote.findFirst({ where: { pollId, fingerprint } })
ExistingVoteByFingerprint(vs, pollId, fingerprint) ==
    \E v \in vs : v.pollId = pollId /\ v.fingerprint = fingerprint

\* new Date(Date.now() - 60 * 1000)
FiveMinutesAgo(t) == t - CooldownMs

\* The origin left out of the query: any recent vote on the poll counts.
RecentVotesByIp_AnyOrigin(vs, pollId, ipAddress, fiveMinutesAgo) ==
    \E v \in vs : /\ v.pollId = pollId
                  /\ v.createdAt >= fiveMinutesAgo

\* Rows without a real origin left out of the query.
RecentVotesByIp_SkipsUnknown(vs, pollId, ipAddress, fiveMinutesAgo) ==
    \E v \in vs : /\ v.pollId = pollId
                  /\ v.ipAddress = ipAddress
                  /\ v.ipAddress # "unknown"
                  /\ v.createdAt >= fiveMinutesAgo

\* `gt` where the route has `gte`.
RecentVotesByIp_Exclusive(vs, pollId, ipAddress, fiveMinutesAgo) ==
    \E v \in vs : /\ v.pollId = pollId
                  /\ v.ipAddress = ipAddress
                  /\ v.createdAt > fiveMinutesAgo

\* prisma.vote.findFirst({ where: { pollId, ipAddress, createdAt: { gte } } })
RecentVotesByIp(vs, pollId, ipAddress, fiveMinutesAgo) ==
    \E v \in vs : /\ v.pollId = pollId
                  /\ v.ipAddress = ipAddress
                  /\ v.createdAt >= fiveMinutesAgo

IdleReq ==
    [pc |-> "idle", pollId |-> "", isNumber |-> TRUE, optionIndex |-> 0,
     isString |-> TRUE, fingerprint |-> "", noHeaders |-> TRUE,
     ipAddress |-> "", fiveMinutesAgo |-> 0, status |-> 0, error |-> "",
     body |-> NoSnapshot, before |-> {}]

NoBroadcast == [pc |-> "none", set |-> None, data |-> NoSnapshot, log |-> <<>>]

Respond(r, status, error) ==
    vreq' = [vreq EXCEPT ![r].pc = "done", ![r].status = status,
                         ![r].error = error]

\* Lines 15-40: parse the body, validate, read the headers, issue the poll
\* lookup.  `before` records the ledger rows present at the start of the
\* request (history only).
VoteStart(r, pollId, isNumber, optionIndex, isString, fingerprint, xff, xreal) ==
    /\ vreq[r].pc = "idle"
    /\ r > 1 => vreq[r - 1].pc # "idle"
    /\ LET q == [vreq[r] EXCEPT
                   !.pollId = pollId, !.isNumber = isNumber,
                   !.optionIndex = optionIndex, !.isString = isString,
                   !.fingerprint = fingerprint,
                   !.noHeaders = (xff = <<>> /\ xreal = ""),
                   !.ipAddress = IpAddress(xff, xreal),
                   !.before = {v.id : v \in votes}]
       IN  IF ~ValidOptionIndex(isNumber, optionIndex)
           THEN vreq' = [vreq EXCEPT ![r] =
                    [q EXCEPT !.pc = "done", !.status = 400,
                              !.error = "InvalidOption"]]
           ELSE IF ~ValidFingerprint(isString, fingerprint)
           THEN vreq' = [vreq EXCEPT ![r] =
                    [q EXCEPT !.pc = "done", !.status = 400,
                              !.error = "MissingIdentity"]]
           ELSE vreq' = [vreq EXCEPT ![r] = [q EXCEPT !.pc = "findPoll"]]
    /\ UNCHANGED <<page, now, polls, created, votes, fetched, connections, sets, subs, bcast>>

\* Lines 43-61: prisma.poll.findUnique, 404 if absent, bounds check.
VoteFindPoll(r) ==
    /\ vreq[r].pc = "findPoll"
    /\ IF vreq[r].pollId \notin DOMAIN polls
       THEN Respond(r, 404, "PollNotFound")
       ELSE IF ~OptionInBounds(vreq[r].optionIndex, polls[vreq[r].pollId])
       THEN Respond(r, 400, "InvalidOption")
       ELSE vreq' = [vreq EXCEPT ![r].pc = "findFingerprint"]
    /\ UNCHANGED <<page, now, polls, created, votes, fetched, connections, sets, subs, bcast>>

\* The two queries in the other order: the origin is asked first.
VoteFindFingerprint_OriginFirst(r) ==
    /\ vreq[r].pc = "findFingerprint"
    /\ IF RecentVotesByIp(votes, vreq[r].pollId, vreq[r].ipAddress,
                          FiveMinutesAgo(now))
       THEN Respond(r, 429, "RateLimited")
       ELSE IF ExistingVoteByFingerprint(votes, vreq[r].pollId,
                                         vreq[r].fingerprint)
       THEN Respond(r, 409, "DuplicateIdentity")
       ELSE vreq' = [vreq EXCEPT ![r].pc = "findIp",
                                 ![r].fiveMinutesAgo = FiveMinutesAgo(now)]
    /\ UNCHANGED <<page, now, polls, created, votes, fetched, connections, sets, subs, bcast>>

\* Lines 63-80: findFirst by (pollId, fingerprint), 409 if found; the
\* continuation then takes Date.now() for the rate-limit query.
VoteFindFingerprint(r) ==
    /\ vreq[r].pc = "findFingerprint"
    /\ IF ExistingVoteByFingerprint(votes, vreq[r].pollId, vreq[r].fingerprint)
       THEN Respond(r, 409, "DuplicateIdentity")
       ELSE vreq' = [vreq EXCEPT ![r].pc = "findIp",
                                 ![r].fiveMinutesAgo = FiveMinutesAgo(now)]
    /\ UNCHANGED <<page, now, polls, created, votes, fetched, connections, sets, subs, bcast>>

\* The row is written before the rate-limit answer is given.
VoteFindIp_InsertFirst(r) ==
    /\ vreq[r].pc = "findIp"
    /\ IF RecentVotesByIp(votes, vreq[r].pollId, vreq[r].ipAddress,
                          vreq[r].fiveMinutesAgo)
       THEN /\ Respond(r, 429, "RateLimited")
            /\ votes' = votes \cup
                  {[id |-> r, pollId |-> vreq[r].pollId,
                    optionIndex |-> vreq[r].optionIndex,
                    fingerprint |-> vreq[r].fingerprint,
                    ipAddress |-> vreq[r].ipAddress, createdAt |-> now]}
       ELSE /\ vreq' = [vreq EXCEPT ![r].pc = "create"]
            /\ UNCHANGED votes
    /\ UNCHANGED <<page, now, polls, created, fetched, connections, sets, subs, bcast>>

\* Lines 81-96: findFirst by (pollId, ipAddress, createdAt >= cutoff), 429.
VoteFindIp(r) ==
    /\ vreq[r].pc = "findIp"
    /\ IF RecentVotesByIp(votes, vreq[r].pollId, vreq[r].ipAddress,
                          vreq[r].fiveMinutesAgo)
       THEN Respond(r, 429, "RateLimited")
       ELSE vreq' = [vreq EXCEPT ![r].pc = "create"]
    /\ UNCHANGED <<page, now, polls, created, votes, fetched, connections, sets, subs, bcast>>

\* Lines 98-107: prisma.vote.create; createdAt defaults to the store's now.
\* The Vote table has plain indexes only (migration.sql 25-32): no row is
\* ever refused.
VoteCreate(r) ==
    /\ vreq[r].pc = "create"
    /\ votes' = votes \cup
          {[id |-> r, pollId |-> vreq[r].pollId,
            optionIndex |-> vreq[r].optionIndex,
            fingerprint |-> vreq[r].fingerprint,
            ipAddress |-> vreq[r].ipAddress, createdAt |-> now]}
    /\ vreq' = [vreq EXCEPT ![r].pc = "findMany"]
    /\ UNCHANGED <<page, now, polls, created, fetched, connections, sets, subs, bcast>>

\* One Set of controllers for the whole server: the call takes whichever Set
\* the registry holds, whatever its poll.
BroadcastCall_SharedSet(pollId) ==
    LET held == {connections[p] : p \in DOMAIN connections} \ {None}
        live == {id \in held : sets[id] # <<>>}
    IN  IF live = {}
        THEN [NoBroadcast EXCEPT !.pc = "returned"]
        ELSE [NoBroadcast EXCEPT !.pc = "reading",
                 !.set = CHOOSE id \in live : \A other \in live : id >= other]

\* broadcastPollUpdate up to its first await (stream route 114-117): no
\* connections, return; otherwise keep the Set object and issue the read.
BroadcastCall(pollId) ==
    IF connections[pollId] = None \/ sets[connections[pollId]] = <<>>
    THEN [NoBroadcast EXCEPT !.pc = "returned"]
    ELSE [NoBroadcast EXCEPT !.pc = "reading", !.set = connections[pollId]]

\* The counts taken from the rows of the other requests only, as if read
\* before the create.
VoteFindMany_StaleRead(r) ==
    /\ vreq[r].pc = "findMany"
    /\ vreq' = [vreq EXCEPT
          ![r].pc = "done", ![r].status = 200,
          ![r].body = PollSnapshot({v \in votes : v.id # r}, vreq[r].pollId,
                                   Len(polls[vreq[r].pollId]))]
    /\ bcast' = [bcast EXCEPT ![r] = BroadcastCall(vreq[r].pollId)]
    /\ UNCHANGED <<page, now, polls, created, votes, fetched, connections, sets, subs>>

\* Lines 109-131: findMany, count, call broadcastPollUpdate (not awaited),
\* respond 200 with the counts.
VoteFindMany(r) ==
    /\ vreq[r].pc = "findMany"
    /\ vreq' = [vreq EXCEPT
          ![r].pc = "done", ![r].status = 200,
          ![r].body = PollSnapshot(votes, vreq[r].pollId,
                                   Len(polls[vreq[r].pollId]))]
    /\ bcast' = [bcast EXCEPT ![r] = BroadcastCall(vreq[r].pollId)]
    /\ UNCHANGED <<page, now, polls, created, votes, fetched, connections, sets, subs>>

StorePcs == {"findPoll", "findFingerprint", "findIp", "create", "findMany"}

\* Lines 132-138: any store operation throws; the catch answers 500.  A
\* throwing create stores nothing.
VoteStoreError(r) ==
    /\ vreq[r].pc \in StorePcs
    /\ vreq' = [vreq EXCEPT ![r].pc = "done", ![r].status = 500,
                            ![r].error = "Failed@" \o vreq[r].pc]
    /\ UNCHANGED <<page, now, polls, created, votes, fetched, connections, sets, subs, bcast>>

\* ------------------------------------------------------------- poll route
\* GET /api/polls/:id : findUnique with votes, 404 or the counts.
FetchPoll(pollId) ==
    /\ fetched' = IF pollId \notin DOMAIN polls
                  THEN [status |-> 404, body |-> NoSnapshot]
                  ELSE [status |-> 200,
                        body |-> PollSnapshot(votes, pollId, Len(polls[pollId]))]
    /\ fetched' # fetched
    /\ UNCHANGED <<page, now, polls, created, votes, vreq, connections, sets, subs, bcast>>

\* ----------------------------------------------------------- create route
\* A string is the sequence of its characters; a body field that is not a
\* string (absent, null, a number) has isString = FALSE and no text.
Str(text) == [isString |-> TRUE, text |-> text]
NotAString == [isString |-> FALSE, text |-> <<>>]

\* String.prototype.trim over the one whitespace character of the inputs.
RECURSIVE TrimStart(_)
TrimStart(t) == IF t # <<>> /\ Head(t) = " " THEN TrimStart(Tail(t)) ELSE t

RECURSIVE TrimEnd(_)
TrimEnd(t) ==
    IF t # <<>> /\ t[Len(t)] = " " THEN TrimEnd(SubSeq(t, 1, Len(t) - 1)) ELSE t

Trim(t) == TrimEnd(TrimStart(t))

MinOptions == 2
MaxOptions == 10

\* The test without the trim: a blank question passes.
ValidQuestion_NoTrim(question) == question.isString /\ question.text # <<>>

\* !question || typeof question !== 'string' || question.trim().length === 0
\* (negated)
ValidQuestion(question) ==
    question.isString /\ question.text # <<>> /\ Len(Trim(question.text)) > 0

\* The filter without the trim: a blank string counts as an option.
IsValidOption_NoTrim(opt) == opt.isString /\ Len(opt.text) > 0

\* typeof opt === 'string' && opt.trim().length > 0
IsValidOption(opt) == opt.isString /\ Len(Trim(opt.text)) > 0

\* options.filter(...)
ValidOptions(items) == SelectSeq(items, IsValidOption)

\* validOptions.map((opt) => opt.trim())
TrimAll(items) == [i \in 1..Len(items) |-> Trim(items[i].text)]

NoPoll ==
    [status |-> 0, error |-> "", question |-> NotAString,
     options |-> [isArray |-> FALSE, items |-> <<>>],
     body |-> [id |-> "", question |-> <<>>, options |-> <<>>]]

CreateResponse(question, options, status, error, body) ==
    [status |-> status, error |-> error, question |-> question,
     options |-> options, body |-> body]

\* The nanoid(10) values the generator may return: one fresh id, which it
\* may return again.
NanoIds == {"n1"}

\* POST /api/polls, lines 145-199: validate, filter, create, respond.  The
\* id is the one nanoid returned; the Poll table's primary key refuses an id
\* already present (migration.sql line 9), the create throws and the catch
\* answers 500.
CreatePoll(question, options, id) ==
    /\ LET validOptions == ValidOptions(options.items)
           Reject(error) ==
               /\ created' = CreateResponse(question, options, 400, error,
                                            NoPoll.body)
               /\ UNCHANGED polls
       IN  IF ~ValidQuestion(question) THEN Reject("QuestionRequired")
           ELSE IF ~options.isArray \/ Len(options.items) < MinOptions
           THEN Reject("TooFewOptions")
           ELSE IF Len(validOptions) < MinOptions
           THEN Reject("TooFewValidOptions")
           ELSE IF Len(validOptions) > MaxOptions
           THEN Reject("TooManyOptions")
           ELSE IF id \in DOMAIN polls
           THEN /\ created' = CreateResponse(question, options, 500,
                                             "Failed@create", NoPoll.body)
                /\ UNCHANGED polls
           ELSE /\ polls' = [p \in DOMAIN polls \cup {id} |->
                               IF p = id THEN TrimAll(validOptions)
                               ELSE polls[p]]
                /\ created' = CreateResponse(question, options, 200, "",
                                 [id |-> id, question |-> Trim(question.text),
                                  options |-> TrimAll(validOptions)])
    /\ UNCHANGED <<page, now, votes, vreq, fetched, connections, sets, subs, bcast>>

\* Lines 200-206: prisma.poll.create throws; the catch answers 500.
CreatePollStoreError(question, options) ==
    /\ ValidQuestion(question)
    /\ options.isArray /\ Len(options.items) >= MinOptions
    /\ Len(ValidOptions(options.items)) >= MinOptions
    /\ Len(ValidOptions(options.items)) <= MaxOptions
    /\ created' = CreateResponse(question, options, 500, "Failed@create",
                                 NoPoll.body)
    /\ UNCHANGED <<page, now, polls, votes, vreq, fetched, connections, sets, subs, bcast>>

\* ------------------------------------------------------------------ clock
Tick ==
    /\ now < MaxTicks * TickMs
    /\ now' = now + TickMs
    /\ UNCHANGED <<page, polls, created, votes, vreq, fetched, connections, sets, subs, bcast>>

\* ----------------------------------------------------------- stream route
ConnectedMsg ==
    [type |-> "connected", voteCounts |-> <<>>, totalVotes |-> 0, by |-> "start"]

\* { type: 'update', voteCounts, totalVotes }; `by` names the writer (history).
UpdateMsg(data, by) ==
    [type |-> "update", voteCounts |-> data.voteCounts,
     totalVotes |-> data.totalVotes, by |-> by]

IdleSub ==
    [pc |-> "idle", pollId |-> "", aborted |-> FALSE, listener |-> FALSE,
     heartbeat |-> FALSE, open |-> FALSE,
     sendPc |-> "none", sendData |-> NoSnapshot,
     out |-> <<>>, beats |-> 0, before |-> {}]

Remove(seq, c) == SelectSeq(seq, LAMBDA x : x # c)
Members(seq) == {seq[i] : i \in 1..Len(seq)}

\* The controllers registered for a poll, through the Map.
Registered(pollId) ==
    IF connections[pollId] = None THEN {} ELSE Members(sets[connections[pollId]])

InRegistry(c) == \E p \in DOMAIN connections : c \in Registered(p)

\* Line 11: the request arrives; its poll lookup is issued.
SubStart(s, pollId) ==
    /\ subs[s].pc = "idle"
    /\ s > 1 => subs[s - 1].pc # "idle"
    /\ subs' = [subs EXCEPT ![s].pc = "findPoll", ![s].pollId = pollId]
    /\ UNCHANGED <<page, now, polls, created, votes, vreq, fetched, connections, sets, bcast>>

\* The stream is built whatever the lookup returned: the controller is
\* registered and the timer set also for a poll that does not exist, and
\* only then is 404 answered.
SubFindPoll_RegisterFirst(s) ==
    /\ subs[s].pc = "findPoll"
    /\ LET p == subs[s].pollId IN
       /\ connections' = IF connections[p] = None
                         THEN [connections EXCEPT ![p] = s]
                         ELSE connections
       /\ sets' = IF connections[p] = None
                  THEN [sets EXCEPT ![s] = <<s>>]
                  ELSE [sets EXCEPT ![connections[p]] = Append(@, s)]
       /\ subs' = [subs EXCEPT
             ![s].pc = IF p \in DOMAIN polls THEN "streaming" ELSE "notFound",
             ![s].open = TRUE,
             ![s].out = <<ConnectedMsg>>,
             ![s].sendPc = "reading",
             ![s].heartbeat = TRUE,
             ![s].listener = TRUE,
             ![s].before = {v.id : v \in VotesOfPoll(votes, p)}]
    /\ UNCHANGED <<page, now, polls, created, votes, vreq, fetched, bcast>>

\* Lines 14-73: findUnique; 404 if absent; otherwise new ReadableStream runs
\* start(controller) synchronously: register, enqueue 'connected', call
\* sendPollUpdate (not awaited), set the heartbeat interval, add the abort
\* listener; then the Response is returned.
SubFindPoll(s) ==
    /\ subs[s].pc = "findPoll"
    /\ LET p == subs[s].pollId IN
       IF p \notin DOMAIN polls
       THEN /\ subs' = [subs EXCEPT ![s].pc = "notFound"]
            /\ UNCHANGED <<connections, sets>>
       ELSE /\ connections' = IF connections[p] = None
                              THEN [connections EXCEPT ![p] = s]
                              ELSE connections
            /\ sets' = IF connections[p] = None
                       THEN [sets EXCEPT ![s] = <<s>>]
                       ELSE [sets EXCEPT ![connections[p]] = Append(@, s)]
            /\ subs' = [subs EXCEPT
                  ![s].pc = "streaming", ![s].open = TRUE,
                  ![s].out = <<ConnectedMsg>>,
                  ![s].sendPc = "reading",
                  ![s].heartbeat = TRUE,
                  ![s].listener = TRUE,
                  ![s].before = {v.id : v \in VotesOfPoll(votes, p)}]
    /\ UNCHANGED <<page, now, polls, created, votes, vreq, fetched, bcast>>

\* Line 14: the lookup throws; GET has no catch, the request fails.
SubStoreError(s) ==
    /\ subs[s].pc = "findPoll"
    /\ subs' = [subs EXCEPT ![s].pc = "error"]
    /\ UNCHANGED <<page, now, polls, created, votes, vreq, fetched, connections, sets, bcast>>

\* The query without `include: { votes }`: the poll comes back voteless.
SendPollUpdateRead_NoVotes(s) ==
    /\ subs[s].sendPc = "reading"
    /\ LET p == subs[s].pollId IN
       subs' = IF p \notin DOMAIN polls
               THEN [subs EXCEPT ![s].sendPc = "done"]
               ELSE [subs EXCEPT ![s].sendPc = "ready",
                        ![s].sendData = PollSnapshot({}, p, Len(polls[p]))]
    /\ UNCHANGED <<page, now, polls, created, votes, vreq, fetched, connections, sets, bcast>>

\* sendPollUpdate, lines 81-103: the store runs findUnique with the votes.
SendPollUpdateRead(s) ==
    /\ subs[s].sendPc = "reading"
    /\ LET p == subs[s].pollId IN
       subs' = IF p \notin DOMAIN polls
               THEN [subs EXCEPT ![s].sendPc = "done"]
               ELSE [subs EXCEPT ![s].sendPc = "ready",
                        ![s].sendData = PollSnapshot(votes, p, Len(polls[p]))]
    /\ UNCHANGED <<page, now, polls, created, votes, vreq, fetched, connections, sets, bcast>>

\* sendPollUpdate, lines 107-109: the read throws; caught and logged.
SendPollUpdateError(s) ==
    /\ subs[s].sendPc = "reading"
    /\ subs' = [subs EXCEPT ![s].sendPc = "done"]
    /\ UNCHANGED <<page, now, polls, created, votes, vreq, fetched, connections, sets, bcast>>

\* The write goes to every controller registered for the poll.
SendPollUpdateWrite_ToAll(s) ==
    /\ subs[s].sendPc = "ready"
    /\ subs' = [t \in Subs |->
                  LET u == IF t = s THEN [subs[t] EXCEPT !.sendPc = "done"]
                           ELSE subs[t]
                  IN  IF t \in Registered(subs[s].pollId) /\ subs[t].open
                      THEN [u EXCEPT !.out = Append(@, UpdateMsg(subs[s].sendData,
                                                             "sendPollUpdate"))]
                      ELSE u]
    /\ UNCHANGED <<page, now, polls, created, votes, vreq, fetched, connections, sets, bcast>>

\* sendPollUpdate, lines 105-109: enqueue; a closed controller throws, caught.
SendPollUpdateWrite(s) ==
    /\ subs[s].sendPc = "ready"
    /\ subs' = IF subs[s].open
               THEN [subs EXCEPT ![s].sendPc = "done",
                        ![s].out = Append(@, UpdateMsg(subs[s].sendData,
                                                       "sendPollUpdate"))]
               ELSE [subs EXCEPT ![s].sendPc = "done"]
    /\ UNCHANGED <<page, now, polls, created, votes, vreq, fetched, connections, sets, bcast>>

\* Lines 40-46: the interval fires; enqueue, and on a throw clearInterval.
Heartbeat(s) ==
    /\ subs[s].heartbeat
    /\ IF subs[s].open
       THEN /\ subs[s].beats < MaxBeats
            /\ subs' = [subs EXCEPT ![s].beats = @ + 1]
       ELSE subs' = [subs EXCEPT ![s].heartbeat = FALSE]
    /\ UNCHANGED <<page, now, polls, created, votes, vreq, fetched, connections, sets, bcast>>

\* The key is deleted only when this call removed the controller itself.
AbortListener_DeleteOnlyIfRemoved(s) ==
    LET p == subs[s].pollId
        pollConnections == connections[p]
        left == IF pollConnections = None THEN <<>>
                ELSE Remove(sets[pollConnections], s)
    IN  /\ sets' = IF pollConnections = None THEN sets
                   ELSE [sets EXCEPT ![pollConnections] = left]
        /\ connections' = IF /\ pollConnections # None
                             /\ s \in Members(sets[pollConnections])
                             /\ left = <<>>
                          THEN [connections EXCEPT ![p] = None]
                          ELSE connections
        /\ subs' = [subs EXCEPT
              ![s].aborted = TRUE, ![s].heartbeat = FALSE, ![s].open = FALSE]

\* Lines 49-63: the abort listener.
AbortListener(s) ==
    LET p == subs[s].pollId
        pollConnections == connections[p]
        left == IF pollConnections = None THEN <<>>
                ELSE Remove(sets[pollConnections], s)
    IN  /\ sets' = IF pollConnections = None THEN sets
                   ELSE [sets EXCEPT ![pollConnections] = left]
        /\ connections' = IF pollConnections # None /\ left = <<>>
                          THEN [connections EXCEPT ![p] = None]
                          ELSE connections
        /\ subs' = [subs EXCEPT
              ![s].aborted = TRUE, ![s].heartbeat = FALSE, ![s].open = FALSE]

\* The client goes away: request.signal fires 'abort' once, at any point of
\* the request's life.  Listeners present at that moment run; one added
\* later never runs.
Abort(s) ==
    /\ subs[s].pc \in {"findPoll", "streaming"}
    /\ ~subs[s].aborted
    /\ IF subs[s].listener
       THEN AbortListener(s)
       ELSE /\ subs' = [subs EXCEPT ![s].aborted = TRUE]
            /\ UNCHANGED <<connections, sets>>
    /\ UNCHANGED <<page, now, polls, created, votes, vreq, fetched, bcast>>

\* The response body is cancelled under the controller (the peer is gone or
\* the transport failed): every later enqueue throws.
Cancel(s) ==
    /\ subs[s].pc = "streaming"
    /\ subs[s].open
    /\ subs' = [subs EXCEPT ![s].open = FALSE]
    /\ UNCHANGED <<page, now, polls, created, votes, vreq, fetched, connections, sets, bcast>>

\* broadcastPollUpdate, lines 117-142: the store runs findUnique with votes.
BroadcastRead(r) ==
    /\ bcast[r].pc = "reading"
    /\ LET p == vreq[r].pollId IN
       bcast' = IF p \notin DOMAIN polls
                THEN [bcast EXCEPT ![r].pc = "returned"]
                ELSE [bcast EXCEPT ![r].pc = "ready",
                         ![r].data = PollSnapshot(votes, p, Len(polls[p]))]
    /\ UNCHANGED <<page, now, polls, created, votes, vreq, fetched, connections, sets, subs>>

\* The broadcast awaited inside the route's try: its rejection reaches the
\* route's catch and the answer becomes 500.
BroadcastError_Surfaces(r) ==
    /\ bcast[r].pc = "reading"
    /\ bcast' = [bcast EXCEPT ![r].pc = "failed"]
    /\ vreq' = [vreq EXCEPT ![r].status = 500, ![r].error = "Failed@broadcast"]
    /\ UNCHANGED <<page, now, polls, created, votes, fetched, connections, sets, subs>>

\* The read throws: the promise rejects, the vote route's .catch logs it.
BroadcastError(r) ==
    /\ bcast[r].pc = "reading"
    /\ bcast' = [bcast EXCEPT ![r].pc = "failed"]
    /\ UNCHANGED <<page, now, polls, created, votes, vreq, fetched, connections, sets, subs>>

\* forEach without the try/catch: the first throw ends the loop.
RECURSIVE ForEachController_NoCatch(_, _, _)
ForEachController_NoCatch(members, msg, st) ==
    IF members = <<>> THEN st
    ELSE LET c == Head(members) IN
         IF st.subs[c].open
         THEN ForEachController_NoCatch(Tail(members), msg,
                 [st EXCEPT !.subs[c].out = Append(@, msg),
                            !.log = Append(@, <<c, "sent">>)])
         ELSE [st EXCEPT !.log = Append(@, <<c, "threw">>)]

\* Lines 145-152: pollConnections.forEach in insertion order; st carries the
\* controllers, the Set being iterated, and the log of writes (history).
RECURSIVE ForEachController(_, _, _)
ForEachController(members, msg, st) ==
    IF members = <<>> THEN st
    ELSE LET c == Head(members) IN
         ForEachController(Tail(members), msg,
            IF st.subs[c].open
            THEN [st EXCEPT !.subs[c].out = Append(@, msg),
                            !.log = Append(@, <<c, "sent">>)]
            ELSE [st EXCEPT !.set = Remove(@, c),
                            !.log = Append(@, <<c, "deleted">>)])

BroadcastWrite(r) ==
    /\ bcast[r].pc = "ready"
    /\ LET id == bcast[r].set
           st == ForEachController(sets[id],
                    UpdateMsg(bcast[r].data, "broadcastPollUpdate"),
                    [subs |-> subs, set |-> sets[id], log |-> <<>>])
       IN  /\ subs' = st.subs
           /\ sets' = [sets EXCEPT ![id] = st.set]
           /\ bcast' = [bcast EXCEPT ![r].pc = "done", ![r].log = st.log]
    /\ UNCHANGED <<page, now, polls, created, votes, vreq, fetched, connections>>

\* -------------------------------------------------------------- poll page
\* One tab showing one poll: `poll` is the React state (loaded = not null),
\* `shown` the percentages of the last render, `es` the EventSource's
\* readyState ("none" before the effect runs), `sub` the stream request that
\* serves it, `read` the number of that stream's messages its onmessage has
\* handled, `fetching` an outstanding fetchPoll,
\* `timer` the pending setTimeout of onerror.
NoPage ==
    [poll |-> NoSnapshot, loaded |-> FALSE, shown |-> <<>>, es |-> "none",
     sub |-> None, read |-> 0, fetching |-> FALSE, timer |-> FALSE]

\* JavaScript numbers are IEEE 754 doubles.  A positive double is its 53
\* significand bits m (most significant first, m[1] = 1) and the exponent e
\* of its last bit: the value is m * 2^e.  Zero has no bits.
MantissaBits == 53
Zero == [m |-> <<>>, e |-> 0]

Zeros(n) == [i \in 1..n |-> 0]

\* The carry into bit i of a + b + carry (bit strings of equal length): some
\* lower position generates one, or the incoming carry does, and every
\* position in between passes it on.
CarryInto(a, b, carry, i) ==
    \/ \E j \in (i + 1)..Len(a) :
          /\ a[j] + b[j] = 2
          /\ \A k \in (i + 1)..(j - 1) : a[k] + b[k] = 1
    \/ /\ carry = 1
       /\ \A k \in (i + 1)..Len(a) : a[k] + b[k] = 1

\* a + b + carry; one bit longer if the top position carries out.
AddBits(a, b, carry) ==
    (IF CarryInto(a, b, carry, 0) THEN <<1>> ELSE <<>>)
    \o [i \in 1..Len(a) |->
          (a[i] + b[i] + (IF CarryInto(a, b, carry, i) THEN 1 ELSE 0)) % 2]

RECURSIVE StripZeros(_)
StripZeros(bits) ==
    IF bits # <<>> /\ Head(bits) = 0 THEN StripZeros(Tail(bits)) ELSE bits

\* Round to nearest, ties to even: kept holds MantissaBits bits ending at
\* exponent e, guard is the first dropped bit, sticky says whether any later
\* dropped bit is set.
RoundToDouble(kept, e, guard, sticky) ==
    IF guard = 1 /\ (sticky \/ kept[MantissaBits] = 1)
    THEN LET up == AddBits(kept, Zeros(MantissaBits), 1)
         IN  IF Len(up) > MantissaBits
             THEN [m |-> SubSeq(up, 1, MantissaBits), e |-> e + 1]
             ELSE [m |-> up, e |-> e]
    ELSE [m |-> kept, e |-> e]

\* Binary long division of r by t from the bit of weight 2^0 downwards,
\* until MantissaBits bits have been taken from the first 1 on; r ends as
\* twice the last remainder.
RECURSIVE DivideBits(_, _, _, _)
DivideBits(r, t, bits, skipped) ==
    IF Len(bits) = MantissaBits
    THEN [bits |-> bits, skipped |-> skipped, rem |-> r]
    ELSE LET b == IF r >= t THEN 1 ELSE 0
             r2 == 2 * (r - b * t)
         IN  IF bits = <<>> /\ b = 0
             THEN DivideBits(r2, t, bits, skipped + 1)
             ELSE DivideBits(r2, t, Append(bits, b), skipped)

\* count / total for 0 <= count <= total, total > 0.
Divide(count, total) ==
    IF count = 0 THEN Zero
    ELSE LET d == DivideBits(count, total, <<>>, 0)
         IN  RoundToDouble(d.bits, -(d.skipped + MantissaBits - 1),
                           IF d.rem >= total THEN 1 ELSE 0,
                           d.rem # 0 /\ d.rem # total)

\* x * 100: the exact product m * (64 + 32 + 4), rounded to a double.
TimesHundred(x) ==
    IF x = Zero THEN Zero
    ELSE LET exact == AddBits(
                         AddBits(<<0>> \o x.m \o Zeros(6),
                                 <<0, 0>> \o x.m \o Zeros(5), 0),
                         <<0, 0, 0, 0, 0>> \o x.m \o Zeros(2), 0)
             bits == StripZeros(exact)
             tail == SubSeq(bits, MantissaBits + 1, Len(bits))
         IN  RoundToDouble(SubSeq(bits, 1, MantissaBits),
                           x.e + Len(tail),
                           tail[1],
                           \E i \in 2..Len(tail) : tail[i] = 1)

RECURSIVE BitsToInt(_)
BitsToInt(bits) ==
    IF bits = <<>> THEN 0
    ELSE 2 * BitsToInt(SubSeq(bits, 1, Len(bits) - 1)) + bits[Len(bits)]

\* Math.round for 0 <= x < 2^52: the nearest integer, a half goes up.
MathRound(x) ==
    IF x = Zero THEN 0
    ELSE LET n == MantissaBits + x.e        \* bits left of the binary point
         IN  IF n < 0 THEN 0
             ELSE IF n >= MantissaBits THEN BitsToInt(x.m)
             ELSE BitsToInt(SubSeq(x.m, 1, n)) + x.m[n + 1]

\* Lines 167-170: Math.round((count / total) * 100), 0 for total 0.
getPercentage(count, total) ==
    IF total = 0 THEN 0 ELSE MathRound(TimesHundred(Divide(count, total)))

\* A render: the percentage of every option from the state.
PageRender ==
    /\ page.loaded
    /\ page' = [page EXCEPT !.shown =
                   [i \in 1..Len(page.poll.voteCounts) |->
                       getPercentage(page.poll.voteCounts[i],
                                     page.poll.totalVotes)]]
    /\ UNCHANGED <<now, polls, votes, vreq, fetched, created, connections, sets, subs, bcast>>

\* The poll the tab shows.
PagePoll == "p1"

\* Lines 60-64: the effect runs: fetchPoll() is called and the EventSource
\* is constructed; it starts connecting.
PageMount ==
    /\ page.es = "none"
    /\ page' = [page EXCEPT !.es = "connecting", !.sub = 1, !.fetching = TRUE]
    /\ UNCHANGED <<now, polls, votes, vreq, fetched, created, connections, sets, subs, bcast>>

\* The EventSource's GET reaches the stream route.
PageConnect ==
    /\ page.es = "connecting"
    /\ subs[page.sub].pc = "idle"
    /\ subs' = [subs EXCEPT ![page.sub].pc = "findPoll",
                            ![page.sub].pollId = PagePoll]
    /\ UNCHANGED <<page, now, polls, votes, vreq, fetched, created, connections, sets, bcast>>

\* Lines 31-50: fetchPoll gets the poll route's 200 and sets the state.
PageFetchPoll ==
    /\ page.fetching
    /\ PagePoll \in DOMAIN polls
    /\ LET body == PollSnapshot(votes, PagePoll, Len(polls[PagePoll])) IN
       /\ fetched' = [status |-> 200, body |-> body]
       /\ page' = [page EXCEPT !.fetching = FALSE, !.loaded = TRUE,
                               !.poll = body]
    /\ UNCHANGED <<now, polls, votes, vreq, created, connections, sets, subs, bcast>>

\* Lines 35-56: the poll route answers 500 (its query threw): a toast, the
\* state stays.
PageFetchPollError ==
    /\ page.fetching
    /\ fetched' = [status |-> 500, body |-> NoSnapshot]
    /\ page' = [page EXCEPT !.fetching = FALSE]
    /\ UNCHANGED <<now, polls, votes, vreq, created, connections, sets, subs, bcast>>

\* The stream route answered 200: the EventSource is OPEN.
PageOnOpen ==
    /\ page.es = "connecting"
    /\ subs[page.sub].pc = "streaming"
    /\ page' = [page EXCEPT !.es = "open", !.read = 0]
    /\ UNCHANGED <<now, polls, votes, vreq, fetched, created, connections, sets, subs, bcast>>

\* Lines 66-83: onmessage; an 'update' replaces the counts of a loaded poll.
PageOnMessage ==
    /\ page.es = "open"
    /\ page.read < Len(subs[page.sub].out)
    /\ LET data == subs[page.sub].out[page.read + 1] IN
       page' = IF data.type = "update" /\ page.loaded
               THEN [page EXCEPT !.read = @ + 1,
                                 !.poll = [voteCounts |-> data.voteCounts,
                                           totalVotes |-> data.totalVotes]]
               ELSE [page EXCEPT !.read = @ + 1]
    /\ UNCHANGED <<now, polls, votes, vreq, fetched, created, connections, sets, subs, bcast>>

\* The open stream ends under the EventSource: it goes back to CONNECTING
\* and retries by itself with a new GET; onerror (lines 85-98) does nothing
\* in that state.  Messages not yet handled are lost with the stream.
PageOnErrorRetry ==
    /\ page.es = "open"
    /\ ~subs[page.sub].open
    /\ page.sub < NumSubs
    /\ page' = [page EXCEPT !.es = "connecting", !.sub = @ + 1]
    /\ UNCHANGED <<now, polls, votes, vreq, fetched, created, connections, sets, subs, bcast>>

\* The stream route answers the GET with 404 or 500: the EventSource fails
\* the connection and is CLOSED for good; onerror (lines 85-95) sets the
\* 5000 ms timer.
PageOnErrorClosed ==
    /\ page.es = "connecting"
    /\ subs[page.sub].pc \in {"notFound", "error"}
    /\ page' = [page EXCEPT !.es = "closed", !.timer = TRUE]
    /\ UNCHANGED <<now, polls, votes, vreq, fetched, created, connections, sets, subs, bcast>>

\* Lines 92-94: the timer fires and calls fetchPoll(); no EventSource is
\* constructed.
PageTimeout ==
    /\ page.timer
    /\ page' = [page EXCEPT !.timer = FALSE, !.fetching = TRUE]
    /\ UNCHANGED <<now, polls, votes, vreq, fetched, created, connections, sets, subs, bcast>>

PageSteps ==
    \/ PageConnect
    \/ PageFetchPoll
    \/ PageFetchPollError
    \/ PageOnOpen
    \/ PageOnMessage
    \/ PageOnErrorRetry
    \/ PageOnErrorClosed
    \/ PageTimeout

\* ------------------------------------------------------------------- init
\* The server side: the store as deployed, no request yet.
InitServer ==
    /\ now = 0
    /\ polls = InitialPolls
    /\ votes = {}
    /\ vreq = [r \in VReqs |-> IdleReq]
    /\ fetched = [status |-> 0, body |-> NoSnapshot]
    /\ created = NoPoll
    /\ connections = [p \in DOMAIN InitialPolls \cup NanoIds |-> None]
    /\ sets = [s \in Subs |-> <<>>]
    /\ subs = [s \in Subs |-> IdleSub]
    /\ bcast = [r \in VReqs |-> NoBroadcast]

Init ==
    /\ InitServer
    /\ page = NoPage

\* ------------------------------------------------------ the steps, grouped
VoteSteps(r) ==
    \/ VoteFindPoll(r)
    \/ VoteFindFingerprint(r)
    \/ VoteFindIp(r)
    \/ VoteCreate(r)
    \/ VoteFindMany(r)
    \/ VoteStoreError(r)

SubSteps(s) ==
    \/ SubFindPoll(s)
    \/ SubStoreError(s)
    \/ SendPollUpdateRead(s)
    \/ SendPollUpdateError(s)
    \/ SendPollUpdateWrite(s)
    \/ Heartbeat(s)
    \/ Abort(s)
    \/ Cancel(s)

BroadcastSteps(r) ==
    \/ BroadcastRead(r)
    \/ BroadcastError(r)
    \/ BroadcastWrite(r)

\* ------------------------------------------- the vote path on its own
\* Submissions against the ledger and the clock; no viewer is connected, so
\* every broadcastPollUpdate call returns at its first line.
Body(pollId, optionIndex, fingerprint, xff) ==
    [pollId |-> pollId, optionIndex |-> optionIndex,
     fingerprint |-> fingerprint, xff |-> xff]

\* Every well-formed body on p1 over two options, two identities and two
\* origins, and the malformed ones.
VoteBodies ==
    {Body("p1", o, f, x) : o \in {0, 1}, f \in {"f1", "f2"},
                           x \in {<<>>, <<"ip1", "ip2">>}}
    \cup {Body("p1", -1, "f1", <<>>), Body("p1", 2, "f1", <<>>),
          Body("p1", 2, "server", <<>>), Body("p1", 0, "server", <<>>),
          Body("nx", 0, "f1", <<>>)}

VoteNext ==
    \/ \E r \in VReqs, b \in VoteBodies :
          VoteStart(r, b.pollId, TRUE, b.optionIndex, TRUE, b.fingerprint,
                    b.xff, "")
    \/ \E r \in VReqs : VoteSteps(r)
    \/ Tick

VoteSpec == Init /\ [][VoteNext]_vars

\* ------------------------------------------------------- the whole system
\* One submission, the viewers' streams, and the broadcast it starts.
PollIds == {"p1", "nx"}
Options == {0, 1}

Next ==
    \/ \E o \in Options :
          VoteStart(1, "p1", TRUE, o, TRUE, "f1", <<"ip1">>, "")
    \/ VoteSteps(1)
    \/ BroadcastSteps(1)
    \/ \E s \in Subs, p \in PollIds : SubStart(s, p)
    \/ \E s \in Subs : SubSteps(s)

Spec == Init /\ [][Next]_vars

\* ------------------------------------------ every producer of a snapshot
\* Two submissions, one viewer of p1 who stays connected, and the poll route.
SnapBodies == {Body("p1", 0, "f1", <<"ip1">>), Body("p1", 1, "f2", <<"ip2">>)}

SnapNext ==
    \/ \E r \in VReqs, b \in SnapBodies :
          VoteStart(r, b.pollId, TRUE, b.optionIndex, TRUE, b.fingerprint,
                    b.xff, "")
    \/ \E r \in VReqs : VoteSteps(r)
    \/ \E r \in VReqs : BroadcastSteps(r)
    \/ \E p \in PollIds : FetchPoll(p)
    \/ SubStart(1, "p1")
    \/ SubFindPoll(1)
    \/ SubStoreError(1)
    \/ SendPollUpdateRead(1)
    \/ SendPollUpdateError(1)
    \/ SendPollUpdateWrite(1)
    \/ Heartbeat(1)

SnapSpec == Init /\ [][SnapNext]_vars

\* ------------------------------------------------- one viewer, scheduled
\* One submission and one viewer.  Every step the program itself takes is
\* eventually taken (the event loop runs ready continuations and timers, the
\* store answers every query, a gone peer's body is eventually cancelled);
\* arrivals of requests and disconnects are the environment's and are not
\* forced.
LiveNext ==
    \/ \E o \in Options :
          VoteStart(1, "p1", TRUE, o, TRUE, "f1", <<"ip1">>, "")
    \/ VoteSteps(1)
    \/ BroadcastSteps(1)
    \/ \E p \in PollIds : SubStart(1, p)
    \/ SubSteps(1)

LiveSpec ==
    /\ Init
    /\ [][LiveNext]_vars
    /\ WF_vars(VoteSteps(1))
    /\ WF_vars(BroadcastSteps(1))
    /\ WF_vars(SubFindPoll(1) \/ SubStoreError(1))
    /\ WF_vars(SendPollUpdateRead(1) \/ SendPollUpdateError(1))
    /\ WF_vars(SendPollUpdateWrite(1))
    /\ WF_vars(Heartbeat(1))
    /\ WF_vars(subs[1].aborted /\ Cancel(1))

\* ------------------------------------------------ every shape of a body
\* Submissions whose optionIndex is a number (negative, in range, too large)
\* or not a number, and whose fingerprint is a string (empty, the sentinel,
\* a real one) or not a string (absent, null, a number), on an existing and
\* on a missing poll.  A non-number optionIndex and a non-string fingerprint
\* carry no value the route reads: 0 and "" stand for them.
InputBody(pollId, isNumber, optionIndex, isString, fingerprint) ==
    [pollId |-> pollId, isNumber |-> isNumber, optionIndex |-> optionIndex,
     isString |-> isString, fingerprint |-> fingerprint]

OptionInputs == {<<FALSE, 0>>, <<TRUE, -1>>, <<TRUE, 0>>, <<TRUE, 2>>}
FingerprintInputs ==
    {<<FALSE, "">>, <<TRUE, "">>, <<TRUE, "server">>, <<TRUE, "f1">>}

InputBodies ==
    {InputBody(p, o[1], o[2], f[1], f[2]) :
        p \in PollIds, o \in OptionInputs, f \in FingerprintInputs}

InputNext ==
    \/ \E r \in VReqs, b \in InputBodies :
          VoteStart(r, b.pollId, b.isNumber, b.optionIndex, b.isString,
                    b.fingerprint, <<"ip1">>, "")
    \/ \E r \in VReqs : VoteSteps(r)

InputSpec == Init /\ [][InputNext]_vars

\* ----------------------------------------------- viewers of two polls
\* The viewers' streams on two existing polls, no submission.
ViewerPolls == {"p1", "p2"}

ViewerNext ==
    \/ \E s \in Subs, p \in ViewerPolls : SubStart(s, p)
    \/ \E s \in Subs : SubSteps(s)

ViewerSpec == Init /\ [][ViewerNext]_vars

\* ------------------------------------------------------- creating polls
\* Create requests over every short list of options (strings that are
\* empty, blank, plain, padded; non-strings) and the lists around the
\* maximum, with and without a blank entry.
MaxShortOptions == 3

Texts == {<<>>, <<" ">>, <<"a">>, <<" ", "b", " ">>}
OptionItems == {Str(t) : t \in Texts} \cup {NotAString}
Questions == {Str(t) : t \in Texts} \cup {NotAString}

RECURSIVE Lists(_, _)
Lists(items, n) ==
    IF n = 0 THEN {<<>>}
    ELSE LET shorter == Lists(items, n - 1)
         IN  shorter \cup {Append(l, x) : l \in {k \in shorter : Len(k) = n - 1},
                                          x \in items}

Repeat(x, n) == [i \in 1..n |-> x]

LongLists ==
    {Repeat(Str(<<"a">>), MaxOptions),
     Repeat(Str(<<"a">>), MaxOptions + 1),
     Append(Repeat(Str(<<"a">>), MaxOptions), Str(<<" ">>)),
     Append(Repeat(Str(<<"a">>), MaxOptions + 1), Str(<<" ">>))}

OptionsInputs ==
    {[isArray |-> TRUE, items |-> l] :
        l \in Lists(OptionItems, MaxShortOptions) \cup LongLists}
    \cup {[isArray |-> FALSE, items |-> <<>>]}

CreateNext ==
    \/ \E q \in Questions, o \in OptionsInputs, id \in NanoIds :
          CreatePoll(q, o, id)
    \/ \E q \in Questions, o \in OptionsInputs : CreatePollStoreError(q, o)

CreateSpec == Init /\ [][CreateNext]_vars

\* ------------------------------------------------- origins and the clock
\* Submissions of two identities from two origins on two existing polls,
\* with the clock advancing in half-cooldown steps.
RateBodies ==
    {Body(p, 0, f, <<x>>) : p \in {"p1", "p2"}, f \in {"f1", "f2"},
                            x \in {"ip1", "ip2"}}

RateNext ==
    \/ \E r \in VReqs, b \in RateBodies :
          VoteStart(r, b.pollId, TRUE, b.optionIndex, TRUE, b.fingerprint,
                    b.xff, "")
    \/ \E r \in VReqs : VoteSteps(r)
    \/ Tick

RateSpec == Init /\ [][RateNext]_vars

\* ------------------------------------------------ rendering a snapshot
\* The page holding any two-option snapshot of up to MaxTotal votes, and
\* its render.
MaxTotal == 40

PctInit ==
    /\ InitServer
    /\ \E total \in 0..MaxTotal, count \in 0..MaxTotal :
          /\ count <= total
          /\ page = [NoPage EXCEPT
                       !.loaded = TRUE,
                       !.poll = [voteCounts |-> <<count, total - count>>,
                                 totalVotes |-> total]]

PctNext == PageRender

PctSpec == PctInit /\ [][PctNext]_vars

\* ---------------------------------------------------- a tab and a voter
\* One tab on p1 with its EventSource and its retry, and one submission by
\* another user; the tab's first connection may drop.  The program's steps
\* are eventually taken: the server's as in LiveSpec, the browser's
\* (responses arrive, events and timers fire); the arrival of the submission
\* and the drop of the connection are the environment's.
ClientNext ==
    \/ PageMount
    \/ PageSteps
    \/ VoteStart(1, PagePoll, TRUE, 0, TRUE, "f1", <<"ip1">>, "")
    \/ VoteSteps(1)
    \/ BroadcastSteps(1)
    \/ \E s \in Subs :
          \/ SubFindPoll(s)
          \/ SubStoreError(s)
          \/ SendPollUpdateRead(s)
          \/ SendPollUpdateError(s)
          \/ SendPollUpdateWrite(s)
    \/ Abort(1)

ClientSpec ==
    /\ Init
    /\ [][ClientNext]_vars
    /\ WF_vars(PageMount)
    /\ WF_vars(PageSteps)
    /\ WF_vars(VoteSteps(1))
    /\ WF_vars(BroadcastSteps(1))
    /\ \A s \in Subs :
          /\ WF_vars(SubFindPoll(s) \/ SubStoreError(s))
          /\ WF_vars(SendPollUpdateRead(s) \/ SendPollUpdateError(s))
          /\ WF_vars(SendPollUpdateWrite(s))

\* ------------------------------------- a submission beside two audiences
\* One submission on either of two polls, and viewers of both polls who
\* subscribe, disconnect and lose their streams.
IsoNext ==
    \/ \E p \in ViewerPolls :
          VoteStart(1, p, TRUE, 0, TRUE, "f1", <<"ip1">>, "")
    \/ VoteSteps(1)
    \/ BroadcastSteps(1)
    \/ \E s \in Subs, p \in ViewerPolls : SubStart(s, p)
    \/ \E s \in Subs :
          \/ SubFindPoll(s)
          \/ SubStoreError(s)
          \/ SendPollUpdateRead(s)
          \/ SendPollUpdateError(s)
          \/ SendPollUpdateWrite(s)
          \/ Abort(s)
          \/ Cancel(s)

IsoSpec == Init /\ [][IsoNext]_vars

\* --------------------------------------------- polls created and then used
\* Create requests with a blank or a padded question and with option lists
\* that are short, blank in part, or around the maximum; one submission and
\* one viewer on a deployed or a created poll, and the poll route.
StoreTexts == {<<" ">>, <<" ", "b", " ">>}
StorePolls == {"p1"} \cup NanoIds

StoreLists ==
    {<<Str(<<"a">>)>>,
     <<Str(<<"a">>), Str(<<" ">>)>>,
     <<Str(<<"a">>), Str(<<" ", "b", " ">>)>>,
     <<Str(<<" ">>), Str(<<"a">>), Str(<<" ", "b", " ">>)>>}

StoreOptionsInputs ==
    {[isArray |-> TRUE, items |-> l] : l \in StoreLists \cup LongLists}

StoreNext ==
    \/ \E t \in StoreTexts, o \in StoreOptionsInputs, id \in NanoIds :
          CreatePoll(Str(t), o, id)
    \/ \E t \in StoreTexts, o \in StoreOptionsInputs :
          CreatePollStoreError(Str(t), o)
    \/ \E p \in StorePolls, o \in {0, 2} :
          VoteStart(1, p, TRUE, o, TRUE, "f1", <<"ip1">>, "")
    \/ VoteSteps(1)
    \/ BroadcastSteps(1)
    \/ \E p \in StorePolls : FetchPoll(p)
    \/ \E p \in StorePolls : SubStart(1, p)
    \/ SubFindPoll(1)
    \/ SendPollUpdateRead(1)
    \/ SendPollUpdateWrite(1)

StoreSpec == Init /\ [][StoreNext]_vars

\* ================================================================ claims
RowsBy(r) == {v \in votes : v.id = r}
Done(r) == vreq[r].pc = "done"
Abs(x) == IF x < 0 THEN -x ELSE x

\* C1: for every (pollId, identity) pair the ledger holds at most one
\* accepted vote, also when submissions with the same identity on the same
\* poll run concurrently: one is accepted, the others answer 409.
C1_AtMostOneVotePerIdentity ==
    /\ \A v, w \in votes :
          v.pollId = w.pollId /\ v.fingerprint = w.fingerprint => v = w
    /\ \A q, r \in VReqs :
          /\ q # r /\ Done(q) /\ Done(r)
          /\ vreq[q].status = 200 /\ vreq[r].status = 200
          => ~(/\ vreq[q].pollId = vreq[r].pollId
               /\ vreq[q].fingerprint = vreq[r].fingerprint)

\* C2: for every (pollId, origin) pair no two accepted votes from that
\* origin on that poll were created less than the cooldown (60 s) apart.
C2_CooldownBetweenAcceptedVotes ==
    \A v, w \in votes :
        v # w /\ v.pollId = w.pollId /\ v.ipAddress = w.ipAddress
        => Abs(v.createdAt - w.createdAt) >= CooldownMs

\* A submission of r that passed validation for an existing poll and started
\* when a vote of its (pollId, fingerprint) was already in the ledger.
StartedAfterStoredVote(r) ==
    /\ vreq[r].pc # "idle"
    /\ ValidOptionIndex(vreq[r].isNumber, vreq[r].optionIndex)
    /\ vreq[r].pollId \in DOMAIN polls
    /\ OptionInBounds(vreq[r].optionIndex, polls[vreq[r].pollId])
    /\ \E v \in votes : /\ v.id \in vreq[r].before
                        /\ v.pollId = vreq[r].pollId
                        /\ v.fingerprint = vreq[r].fingerprint

\* C3: once a vote of (pollId, identity) is stored, a submission for the
\* same poll and identity that starts afterwards, with a valid option index,
\* from any origin and at any later time, never gets past the fingerprint
\* query: it answers 409 (500 only if its own poll or fingerprint query
\* throws) and it adds no row to the ledger.
C3_SequentialDuplicateRejected ==
    \A r \in VReqs :
        StartedAfterStoredVote(r) =>
            /\ vreq[r].pc \in {"findPoll", "findFingerprint", "done"}
            /\ Done(r) =>
                  \/ vreq[r].status = 409
                  \/ /\ vreq[r].status = 500
                     /\ vreq[r].error \in {"Failed@findPoll",
                                           "Failed@findFingerprint"}
            /\ RowsBy(r) = {}

C3_Witness ==
    \E r \in VReqs :
        /\ StartedAfterStoredVote(r)
        /\ Done(r) /\ vreq[r].status = 409
        /\ \E v \in votes : /\ v.pollId = vreq[r].pollId
                            /\ v.fingerprint = vreq[r].fingerprint
                            /\ v.ipAddress # vreq[r].ipAddress
                            /\ v.createdAt + CooldownMs < now

Rejections == {400, 404, 409, 429}

\* C4: a submission that answers success has appended exactly one row, a
\* submission that answers a rejection (PollNotFound, InvalidOption,
\* MissingIdentity, DuplicateIdentity, RateLimited) has appended none, and
\* no row exists that a submission did not append in its create step.
C4_OneAppendOnSuccessNoneOnRejection ==
    /\ \A r \in VReqs :
          /\ Done(r) /\ vreq[r].status = 200 => Cardinality(RowsBy(r)) = 1
          /\ Done(r) /\ vreq[r].status \in Rejections => RowsBy(r) = {}
          /\ vreq[r].pc \in {"idle", "findPoll", "findFingerprint",
                             "findIp", "create"} => RowsBy(r) = {}
    /\ \A v \in votes : v.id \in VReqs

C4_Witness ==
    \E q, r \in VReqs :
        /\ Done(q) /\ vreq[q].status = 200 /\ Cardinality(RowsBy(q)) = 1
        /\ Done(r) /\ vreq[r].status = 429 /\ r \notin vreq[q].before
        /\ Cardinality(votes) = 1

\* A finished submission on an existing poll whose optionIndex is a number
\* that is negative or not below the poll's option count.
OutOfRange(r) ==
    /\ Done(r)
    /\ vreq[r].pollId \in DOMAIN polls
    /\ vreq[r].isNumber
    /\ \/ vreq[r].optionIndex < 0
       \/ vreq[r].optionIndex >= Len(polls[vreq[r].pollId])

UpdatesOf(s) ==
    {subs[s].out[i] : i \in {j \in 1..Len(subs[s].out) :
                                subs[s].out[j].type = "update"}}

\* C6: in every snapshot produced by any path (the poll route's response,
\* the vote route's response, the stream's initial update, a broadcast
\* update), the per-option counts sum to the snapshot's total.
C6_CountsSumToTotal ==
    /\ \A r \in VReqs :
          Done(r) /\ vreq[r].status = 200
          => SumSeq(vreq[r].body.voteCounts) = vreq[r].body.totalVotes
    /\ fetched.status = 200
          => SumSeq(fetched.body.voteCounts) = fetched.body.totalVotes
    /\ \A s \in Subs :
          /\ subs[s].sendPc = "ready"
             => SumSeq(subs[s].sendData.voteCounts) = subs[s].sendData.totalVotes
          /\ \A m \in UpdatesOf(s) : SumSeq(m.voteCounts) = m.totalVotes
    /\ \A r \in VReqs :
          bcast[r].pc \in {"ready", "done"}
          => SumSeq(bcast[r].data.voteCounts) = bcast[r].data.totalVotes

C6_Witness ==
    /\ \E r \in VReqs : /\ Done(r) /\ vreq[r].status = 200
                        /\ vreq[r].body.voteCounts = <<1, 1>>
    /\ fetched.status = 200 /\ fetched.body.voteCounts = <<1, 0>>
    /\ \E m, n \in UpdatesOf(1) :
          /\ m.by = "sendPollUpdate" /\ m.totalVotes = 1
          /\ n.by = "broadcastPollUpdate" /\ n.totalVotes = 2

InitialUpdates(s) == {m \in UpdatesOf(s) : m.by = "sendPollUpdate"}

RowsBefore(s) == {v \in votes : v.id \in subs[s].before}

\* sendPollUpdate's read threw: it ended without data.
SendReadFailed(s) == subs[s].sendPc = "done" /\ subs[s].sendData = NoSnapshot

C8_FailureIsolatedInBroadcast ==
    [][\A r \in VReqs :
          bcast[r].pc = "ready" /\ bcast'[r].pc = "done" =>
             LET id == bcast[r].set
                 msg == UpdateMsg(bcast[r].data, "broadcastPollUpdate")
             IN  /\ (\E c \in Members(sets[id]) : ~subs[c].open)
                       => Members(sets[id]) = Registered(vreq[r].pollId)
                 /\ \A c \in Members(sets[id]) :
                    IF subs[c].open
                    THEN /\ subs'[c].out = Append(subs[c].out, msg)
                         /\ c \in Members(sets'[id])
                    ELSE /\ c \notin Members(sets'[id])
                         /\ ~InRegistry(c)'
                         /\ subs'[c].out = subs[c].out]_vars

C8_Witness ==
    \E r \in VReqs :
        /\ bcast[r].pc = "done"
        /\ \E i, j \in 1..Len(bcast[r].log) :
              /\ i < j
              /\ bcast[r].log[i][2] = "deleted"
              /\ bcast[r].log[j][2] = "sent"
              /\ bcast[r].log[i][1] \notin Members(sets[bcast[r].set])
              /\ \E m \in UpdatesOf(bcast[r].log[j][1]) :
                    /\ m.by = "broadcastPollUpdate"
                    /\ m.totalVotes = bcast[r].data.totalVotes

\* C9: broadcastPollUpdate is invoked exactly once for every submission
\* that appended its vote to the ledger and never for one that did not,
\* also when a store operation fails after the append.
C9_BroadcastOncePerAppendedVote ==
    \A r \in VReqs :
        Done(r) => (RowsBy(r) # {} <=> bcast[r].pc # "none")

\* C10: every subscription whose connection closes (the abort signal, at
\* any point of the request's life, also before start() adds its listener)
\* is eventually absent from the registry with its heartbeat timer stopped.
C10_ClosedSubscriptionLeavesRegistry ==
    \A s \in Subs :
        subs[s].aborted ~> (~InRegistry(s) /\ ~subs[s].heartbeat)

\* C11: in every reachable state the registry maps no poll to an empty set:
\* whenever the last handle of a poll is removed, by the abort listener or
\* by a failed write in a broadcast, the poll's key is deleted with it.
C11_NoEmptySetInRegistry ==
    \A p \in DOMAIN connections :
        connections[p] # None => sets[connections[p]] # <<>>

\* The heartbeat callback of s throws on its write: the interval of s stops
\* and no abort happens in the step.
HeartbeatFails(s) ==
    /\ subs[s].heartbeat /\ ~subs[s].open
    /\ ~subs'[s].heartbeat
    /\ subs'[s].aborted = subs[s].aborted

\* C12: a handle whose heartbeat write fails is cleaned up as one whose
\* broadcast write fails: after the step it is in no set of the registry.
C12_HeartbeatFailureRemovesHandle ==
    [][\A s \in Subs : HeartbeatFails(s) => ~InRegistry(s)']_vars

\* C14: a submission that answers 500 because a store operation threw has
\* left no row of its own in the ledger.
C14_StoreFailureLeavesNoVote ==
    \A r \in VReqs :
        Done(r) /\ vreq[r].status = 500 => RowsBy(r) = {}

\* A finished submission whose pollId names no poll.
OnMissingPoll(r) == Done(r) /\ vreq[r].pollId \notin DOMAIN polls

\* C13: the poll is resolved first: a submission whose pollId names no poll
\* answers PollNotFound (404) whatever its optionIndex and fingerprint are,
\* negative or non-numeric optionIndex and missing or sentinel fingerprint
\* included (500 only if the poll lookup throws).
C13_MissingPollAlwaysNotFound ==
    \A r \in VReqs :
        OnMissingPoll(r) =>
            \/ vreq[r].status = 404
            \/ vreq[r].status = 500 /\ vreq[r].error = "Failed@findPoll"

\* C13, amended: the body is validated before the poll is resolved.  A
\* submission whose pollId names no poll answers 400 InvalidOption if its
\* optionIndex is not a number or is negative, otherwise 400 MissingIdentity
\* if its fingerprint is not a string, is empty or is 'server', otherwise
\* 404 PollNotFound for every optionIndex (500 only if the poll lookup
\* throws); in no case is a row stored.
C13_MissingPollAfterBodyValidation ==
    \A r \in VReqs :
        OnMissingPoll(r) =>
            /\ RowsBy(r) = {}
            /\ IF ~vreq[r].isNumber \/ vreq[r].optionIndex < 0
               THEN vreq[r].status = 400 /\ vreq[r].error = "InvalidOption"
               ELSE IF \/ ~vreq[r].isString
                       \/ vreq[r].fingerprint \in {"", "server"}
               THEN vreq[r].status = 400 /\ vreq[r].error = "MissingIdentity"
               ELSE \/ vreq[r].status = 404 /\ vreq[r].error = "PollNotFound"
                    \/ vreq[r].status = 500 /\ vreq[r].error = "Failed@findPoll"

C13_Witness ==
    \E q, r \in VReqs :
        /\ OnMissingPoll(q) /\ vreq[q].isNumber /\ vreq[q].optionIndex < 0
        /\ vreq[q].status = 400
        /\ OnMissingPoll(r) /\ vreq[r].optionIndex = 2
        /\ vreq[r].status = 404

\* A finished submission on an existing poll, with an optionIndex inside the
\* poll's options, whose fingerprint is not a string (absent included), is
\* the empty string, or is the sentinel 'server'.
WithoutIdentity(r) ==
    /\ Done(r)
    /\ vreq[r].pollId \in DOMAIN polls
    /\ vreq[r].isNumber
    /\ 0 <= vreq[r].optionIndex
    /\ vreq[r].optionIndex < Len(polls[vreq[r].pollId])
    /\ \/ ~vreq[r].isString
       \/ vreq[r].fingerprint = ""
       \/ vreq[r].fingerprint = "server"

\* C19: a submission on an existing poll with a valid optionIndex whose
\* fingerprint is absent, empty, not a string or 'server' answers 400
\* MissingIdentity and stores no row.
C19_MissingIdentityRejected ==
    \A r \in VReqs :
        WithoutIdentity(r) =>
            /\ vreq[r].status = 400
            /\ vreq[r].error = "MissingIdentity"
            /\ RowsBy(r) = {}

C19_Witness ==
    \E q, r \in VReqs :
        /\ WithoutIdentity(q) /\ ~vreq[q].isString
        /\ WithoutIdentity(r) /\ vreq[r].fingerprint = "server"
        /\ vreq[q].status = 400 /\ vreq[r].status = 400

\* C15: the answer of a submission does not depend on its broadcast: the
\* broadcast is started only by a submission that answers success, the
\* answer stands while the broadcast is still reading, and no step of the
\* broadcast (its read, a failing read, its writes, a failing write)
\* changes the answer.
C15_ResponseIndependentOfBroadcast ==
    /\ [](\A r \in VReqs :
             bcast[r].pc # "none" =>
                /\ Done(r) /\ vreq[r].status = 200
                /\ vreq[r].body.totalVotes >= 1)
    /\ [][\A r \in VReqs :
             bcast[r].pc # "none" /\ bcast'[r] # bcast[r]
                => vreq'[r] = vreq[r]]_vars

C15_Witness ==
    \E r \in VReqs :
        /\ bcast[r].pc = "failed"
        /\ Done(r) /\ vreq[r].status = 200 /\ RowsBy(r) # {}

\* Controller s is in no Set, mapped or not, and its interval is cleared.
TornDown(s) ==
    /\ \A id \in Subs : s \notin Members(sets[id])
    /\ ~subs[s].heartbeat

\* The abort listener of s runs in this step.
ConsumerTeardown(s) ==
    subs[s].listener /\ ~subs[s].aborted /\ subs'[s].aborted

\* C16: teardown is idempotent across the failing broadcast write and the
\* abort listener.  When the listener runs, before or after a broadcast has
\* deleted the controller, the controller is afterwards in no set, its
\* poll's key is deleted if its set is empty, and its interval is cleared;
\* and a controller in that state stays in it whatever runs later.
C16_TeardownIdempotent ==
    [][\A s \in Subs :
          /\ ConsumerTeardown(s) =>
                /\ TornDown(s)'
                /\ LET p == subs[s].pollId IN
                   \/ connections'[p] = None
                   \/ sets'[connections'[p]] # <<>>
          /\ subs[s].pc = "streaming" /\ TornDown(s) => TornDown(s)']_vars

C16_Witness ==
    \E s \in Subs, r \in VReqs :
        /\ \E i \in 1..Len(bcast[r].log) : bcast[r].log[i] = <<s, "deleted">>
        /\ subs[s].aborted
        /\ TornDown(s)
        /\ connections[subs[s].pollId] = None
        /\ \A t \in Subs \ {s} : subs[t].pc = "idle"

\* start() of s runs, or sendPollUpdate of s does its write.
SubscribeWrites(s) ==
    \/ subs[s].pc = "findPoll" /\ subs'[s].pc = "streaming"
    \/ subs[s].sendPc = "ready" /\ subs'[s].sendPc = "done"

\* C17: the writes of a subscribe ('connected' and the initial snapshot) go
\* to the new controller only: they leave the output of every other
\* controller, of the same poll or of another, as it was.
C17_InitialSnapshotOnlyToNewHandle ==
    [][\A s \in Subs :
          SubscribeWrites(s) =>
             /\ \A t \in Subs \ {s} : subs'[t].out = subs[t].out
             /\ subs[s].sendPc = "ready" /\ subs[s].open =>
                   subs'[s].out =
                      Append(subs[s].out,
                             UpdateMsg(subs[s].sendData, "sendPollUpdate"))]_vars

C17_Witness ==
    \E s, t \in Subs :
        /\ s # t
        /\ InitialUpdates(s) # {}
        /\ subs[t].pollId = subs[s].pollId
        /\ InRegistry(t) /\ subs[t].open
        /\ subs[t].out = <<ConnectedMsg>>

\* The request the create route answered last is well formed in the sense
\* of the claim: a question that is a non-empty string after trimming and
\* an array of 2 to 10 options, each a string that is non-empty after
\* trimming.
WellFormedCreate ==
    /\ created.question.isString
    /\ Trim(created.question.text) # <<>>
    /\ created.options.isArray
    /\ Len(created.options.items) >= 2
    /\ Len(created.options.items) <= 10
    /\ \A i \in 1..Len(created.options.items) :
          /\ created.options.items[i].isString
          /\ Trim(created.options.items[i].text) # <<>>

\* The positions of the options the route keeps.
KeptOptions ==
    {i \in 1..Len(created.options.items) :
        /\ created.options.items[i].isString
        /\ \E j \in 1..Len(created.options.items[i].text) :
              created.options.items[i].text[j] # " "}

\* C18: the create route answers 400 and stores nothing for every request
\* that is not well formed; a request with an option that is empty after
\* trimming is rejected.
C18_MalformedCreateRejected ==
    created.status # 0 /\ ~WellFormedCreate =>
        created.status = 400 /\ created.body.id = ""

\* C18, amended: options that are not strings or are empty after trimming
\* are dropped, not refused.  The route answers 400 and stores nothing
\* exactly when the question is not a non-empty string after trimming, or
\* options is not an array, or has fewer than 2 entries, or keeps fewer
\* than 2 or more than 10 entries after the drop; otherwise it stores (500
\* and nothing stored if the store refuses) the trimmed question and the
\* kept options, trimmed and in order.
C18_BlankOptionsDropped ==
    created.status # 0 =>
        LET n == Cardinality(KeptOptions)
            bad == \/ ~created.question.isString
                   \/ Trim(created.question.text) = <<>>
                   \/ ~created.options.isArray
                   \/ Len(created.options.items) < 2
                   \/ n < 2
                   \/ n > 10
        IN  /\ bad <=> created.status = 400
            /\ created.status \in {200, 400, 500}
            /\ created.status # 200 => created.body.id = ""
            /\ created.status = 200 =>
                  /\ created.body.id \in DOMAIN polls
                  /\ polls[created.body.id] = created.body.options
                  /\ Len(created.body.options) = n
                  /\ \A k \in 1..n :
                        \E i \in KeptOptions :
                           /\ Cardinality({j \in KeptOptions : j <= i}) = k
                           /\ created.body.options[k] =
                                 Trim(created.options.items[i].text)
                  /\ \A k \in 1..n :
                        /\ created.body.options[k] # <<>>
                        /\ Head(created.body.options[k]) # " "
                  /\ created.body.question = Trim(created.question.text)
    /\ DOMAIN polls \subseteq DOMAIN InitialPolls \cup NanoIds

C18_Witness ==
    /\ created.status = 200
    /\ ~WellFormedCreate
    /\ Len(created.options.items) = 3
    /\ Len(created.body.options) = 2
    /\ created.options.items[2].text = <<" ">>

\* The rate-limit query of r is answered in this step (it does not throw).
RateLimitAnswered(r) ==
    /\ vreq[r].pc = "findIp"
    /\ vreq'[r].pc # "findIp"
    /\ vreq'[r].status # 500

C21_PercentageIsRoundedShare ==
    \A i \in 1..Len(page.shown) :
        LET count == page.poll.voteCounts[i]
            total == page.poll.totalVotes
        IN  /\ page.shown[i] \in 0..100
            /\ total = 0 => page.shown[i] = 0
            /\ total > 0 =>
                  page.shown[i] = (200 * count + total) \div (2 * total)

\* Two submissions on the same existing poll with valid options, distinct
\* fingerprints and distinct origins.
DistinctVoters(q, r) ==
    /\ q # r
    /\ vreq[q].pc # "idle" /\ vreq[r].pc # "idle"
    /\ vreq[q].pollId = vreq[r].pollId
    /\ vreq[q].pollId \in DOMAIN polls
    /\ vreq[q].fingerprint # vreq[r].fingerprint
    /\ vreq[q].ipAddress # vreq[r].ipAddress
    /\ \A x \in {q, r} :
          /\ ValidOptionIndex(vreq[x].isNumber, vreq[x].optionIndex)
          /\ ValidFingerprint(vreq[x].isString, vreq[x].fingerprint)
          /\ OptionInBounds(vreq[x].optionIndex, polls[vreq[x].pollId])

\* No submission besides q and r comes from r's identity or r's origin on
\* r's poll.
NoOtherLike(q, r) ==
    \A x \in VReqs \ {q, r} :
       vreq[x].pc # "idle" /\ vreq[x].pollId = vreq[r].pollId
          => /\ vreq[x].fingerprint # vreq[r].fingerprint
             /\ vreq[x].ipAddress # vreq[r].ipAddress

\* C22: two users voting on the same poll at the same moment, with distinct
\* identities and origins and valid options, both succeed under every
\* interleaving of their store operations: neither is rejected, each stores
\* one row and each starts a broadcast (a submission answers 500 only if one
\* of its own store operations throws).
C22_ConcurrentVotersBothSucceed ==
    \A q, r \in VReqs :
        DistinctVoters(q, r) /\ NoOtherLike(q, r) /\ Done(r) =>
            \/ /\ vreq[r].status = 200
               /\ Cardinality(RowsBy(r)) = 1
               /\ bcast[r].pc # "none"
            \/ vreq[r].status = 500

C22_Witness ==
    \E q, r \in VReqs :
        /\ DistinctVoters(q, r)
        /\ Done(q) /\ vreq[q].status = 200
        /\ Done(r) /\ vreq[r].status = 200
        /\ q \notin vreq[r].before /\ r \notin vreq[q].before
        /\ Cardinality(votes) = 2
        /\ bcast[q].pc = "done" /\ bcast[r].pc = "done"

\* The rows of poll p that vote for option index o.
RowsFor(p, o) == {v \in votes : v.pollId = p /\ v.optionIndex = o}

\* C23: the snapshot in the answer of a successful submission is computed
\* from the ledger as it is after the append: it is the per-option count
\* and the total of the poll's rows at the moment of the read, so its
\* count at the submitted option is at least 1 and its total at least the
\* number of the poll's rows stored before the request, plus 1.
C23_ResponseCountsOwnVote ==
    [][\A r \in VReqs :
          vreq[r].pc = "findMany" /\ vreq'[r].status = 200 =>
             LET p == vreq[r].pollId
                 body == vreq'[r].body
             IN  /\ Len(body.voteCounts) = Len(polls[p])
                 /\ \A i \in 1..Len(body.voteCounts) :
                       body.voteCounts[i] = Cardinality(RowsFor(p, i - 1))
                 /\ body.totalVotes =
                       Cardinality({v \in votes : v.pollId = p})
                 /\ body.voteCounts[vreq[r].optionIndex + 1] >= 1
                 /\ body.totalVotes >=
                       Cardinality({v \in votes : /\ v.pollId = p
                                                  /\ v.id \in vreq[r].before})
                       + 1]_vars

C23_Witness ==
    \E r \in VReqs :
        /\ Done(r) /\ vreq[r].status = 200
        /\ vreq[r].before # {}
        /\ vreq[r].body.totalVotes = 2
        /\ vreq[r].body.voteCounts[vreq[r].optionIndex + 1] = 1

\* The identity query of r is answered in this step (it does not throw).
IdentityAnswered(r) ==
    /\ vreq[r].pc = "findFingerprint"
    /\ vreq'[r].pc # "findFingerprint"
    /\ vreq'[r].status # 500

\* C25: the identity check comes before the origin check.  A submission
\* whose (pollId, identity) has a stored vote when its identity query runs
\* answers 409 there and never reaches the origin query; 429 is answered
\* only by the origin query, so only to a submission whose identity had no
\* stored vote on the poll; a submission that starts after a vote of its
\* identity was stored never answers 429, whatever its origin.
C25_IdentityCheckBeforeOriginCheck ==
    /\ [][\A r \in VReqs :
             /\ IdentityAnswered(r) =>
                   IF \E v \in votes : /\ v.pollId = vreq[r].pollId
                                       /\ v.fingerprint = vreq[r].fingerprint
                   THEN vreq'[r].status = 409
                   ELSE vreq'[r].pc = "findIp"
             /\ vreq[r].status # 429 /\ vreq'[r].status = 429
                   => vreq[r].pc = "findIp"]_vars
    /\ [](\A r \in VReqs :
             StartedAfterStoredVote(r) => vreq[r].status # 429)

C25_Witness ==
    \E r \in VReqs :
        /\ StartedAfterStoredVote(r)
        /\ Done(r) /\ vreq[r].status = 409
        /\ \E v \in votes : /\ v.id \in vreq[r].before
                            /\ v.pollId = vreq[r].pollId
                            /\ v.fingerprint = vreq[r].fingerprint
                            /\ v.ipAddress = vreq[r].ipAddress
                            /\ now - v.createdAt < CooldownMs

\* The EventSource is CLOSED, the timer of onerror has fired and the
\* fetchPoll it called was answered 200 with a poll that had no vote yet.
RefetchedAfterClose ==
    /\ page.es = "closed"
    /\ ~page.timer /\ ~page.fetching
    /\ fetched.status = 200 /\ fetched.body.totalVotes = 0

\* C24: after the EventSource has errored out and closed, the page brings
\* live updates back (5 s later): a vote that is accepted after that is
\* eventually shown in the page's counts.
C24_LiveUpdatesResumeAfterClose ==
    (RefetchedAfterClose /\ Done(1) /\ vreq[1].status = 200)
        ~> (page.loaded /\ page.poll.totalVotes >= 1)

\* The step is the forEach of the broadcast that request r started.
Publishes(r) == bcast[r].pc = "ready" /\ bcast'[r].pc = "done"

\* The step is a step of viewer s's own stream request.
StepOfViewer(s) == subs'[s] # subs[s] /\ \A r \in VReqs : ~Publishes(r)

\* C26: a broadcast for poll P writes only to handles registered under P,
\* and whatever is done on P (a subscribe, a disconnect, a removal after a
\* failed publish) leaves the registry entry and the handle set of every
\* other poll Q as they were.
C26_PerPollIsolation ==
    [][/\ \A r \in VReqs : Publishes(r) =>
            \A s \in Subs : subs'[s] # subs[s] =>
               /\ subs[s].pollId = vreq[r].pollId
               /\ s \in Registered(vreq[r].pollId)
       /\ \A q \in DOMAIN connections :
            (connections'[q] # connections[q] \/ Registered(q)' # Registered(q))
               => \/ \E r \in VReqs : Publishes(r) /\ vreq[r].pollId = q
                  \/ \E s \in Subs : StepOfViewer(s) /\ subs[s].pollId = q]_vars

\* A broadcast for one poll has written or removed a handle while the other
\* poll had a handle registered.
C26_Witness ==
    /\ bcast[1].pc = "done" /\ bcast[1].log # <<>>
    /\ \E t \in Subs : /\ subs[t].pollId \in ViewerPolls \ {vreq[1].pollId}
                       /\ t \in Registered(subs[t].pollId)

\* A label or a question as stored: not empty, no blank at either end.
StoredText(t) == t # <<>> /\ Head(t) # " " /\ t[Len(t)] # " "

\* C27: every stored poll has 2 to 10 option labels, and a poll the create
\* route stored has a question and labels that are non-empty and trimmed,
\* the labels being the request's non-blank options (blank ones are dropped
\* before the 2..10 test); no operation removes a stored poll or changes
\* its option list afterwards.
C27_StoredPollsWellFormedAndFixed ==
    /\ [](\A p \in DOMAIN polls :
            /\ Len(polls[p]) >= 2 /\ Len(polls[p]) <= 10
            /\ p \in NanoIds =>
                  \A k \in 1..Len(polls[p]) : StoredText(polls[p][k]))
    /\ [][/\ \A p \in DOMAIN polls :
               p \in DOMAIN polls' /\ polls'[p] = polls[p]
          /\ polls' # polls =>
               /\ created'.status = 200
               /\ DOMAIN polls' = DOMAIN polls \cup {created'.body.id}
               /\ StoredText(created'.body.question)
               /\ polls'[created'.body.id] = created'.body.options
               /\ Len(created'.body.options) = Cardinality(KeptOptions')]_vars

\* A poll was stored from a request of 11 options, one of them blank, and a
\* vote on it was accepted afterwards.
C27_Witness ==
    /\ created.status = 200
    /\ Len(created.options.items) = MaxOptions + 1
    /\ Len(polls[created.body.id]) = MaxOptions
    /\ Done(1) /\ vreq[1].status = 200 /\ vreq[1].pollId = created.body.id

\* C28: the snapshots written to one subscriber, the initial one and the
\* broadcasts, in the order written, have non-decreasing totals.
C28_TotalsNeverGoBack ==
    \A s \in Subs :
       \A i, j \in 1..Len(subs[s].out) :
          /\ i < j
          /\ subs[s].out[i].type = "update"
          /\ subs[s].out[j].type = "update"
          => subs[s].out[i].totalVotes <= subs[s].out[j].totalVotes

\* No request is in flight and no read or write of a snapshot is pending.
Quiescent ==
    /\ vreq[1].pc \notin {"idle"} \cup StorePcs
    /\ bcast[1].pc \notin {"reading", "ready"}
    /\ \A s \in Subs : /\ subs[s].pc # "findPoll"
                       /\ subs[s].sendPc \notin {"reading", "ready"}

\* No store operation threw: not one of the submission's, not a read of a
\* snapshot for the viewers.
NoReadFailed ==
    /\ vreq[1].status # 500
    /\ bcast[1].pc # "failed"
    /\ \A s \in Subs : ~SendReadFailed(s)

\* Viewer s subscribed and its stream was never aborted or cancelled.
StayedConnected(s) ==
    subs[s].pc = "streaming" /\ subs[s].open /\ ~subs[s].aborted

\* C29: once the submission is over and every read and broadcast has
\* completed (none of them having failed), the last snapshot written to
\* every subscriber that stayed connected is the aggregate of the final
\* ledger of its poll.
C29_LastSnapshotIsFinalLedger ==
    Quiescent /\ NoReadFailed =>
       \A s \in Subs :
          StayedConnected(s) =>
             LET last == subs[s].out[Len(subs[s].out)]
                 final == PollSnapshot(votes, subs[s].pollId,
                                       Len(polls[subs[s].pollId]))
             IN  /\ last.type = "update"
                 /\ last.voteCounts = final.voteCounts
                 /\ last.totalVotes = final.totalVotes

\* The ledger holds a vote on r's poll, by another identity, stored by a
\* submission that carried neither origin header, inside r's cooldown.
HeaderlessVoteInCooldown(r) ==
    \E q \in VReqs \ {r} :
       /\ vreq[q].noHeaders
       /\ \E v \in RowsBy(q) : /\ v.pollId = vreq[r].pollId
                               /\ v.fingerprint # vreq[r].fingerprint
                               /\ v.createdAt >= vreq[r].fiveMinutesAgo

\* C30: a submission without x-forwarded-for and x-real-ip gets the origin
\* 'unknown', and such submissions rate-limit one another: once a
\* header-less vote is in the ledger of a poll, a header-less submission by
\* another identity on that poll whose origin query is answered within the
\* cooldown gets 429.
C30_HeaderlessShareOneOrigin ==
    /\ [](\A r \in VReqs :
             vreq[r].pc # "idle" /\ vreq[r].noHeaders
                => vreq[r].ipAddress = "unknown")
    /\ [][\A r \in VReqs :
             /\ RateLimitAnswered(r)
             /\ vreq[r].noHeaders
             /\ HeaderlessVoteInCooldown(r)
             => /\ vreq'[r].status = 429
                /\ vreq'[r].error = "RateLimited"
                /\ vreq'[r].pc = "done"]_vars

C30_Witness ==
    \E r \in VReqs :
       /\ vreq[r].noHeaders
       /\ HeaderlessVoteInCooldown(r)
       /\ Done(r) /\ vreq[r].status = 429
       /\ RowsBy(r) = {}

\* The poll lookup of viewer s's subscribe is answered in this step, for a
\* pollId that references no stored poll.
MissingPollLookup(s) ==
    /\ subs[s].pc = "findPoll"
    /\ subs'[s].pc # "findPoll"
    /\ subs[s].pollId \notin DOMAIN polls

\* Viewer s's request has left nothing behind: no handle in any set, no
\* keep-alive timer, no abort listener, nothing written, no read started.
LeftNothing(s) ==
    /\ \A p \in DOMAIN connections : s \notin Registered(p)
    /\ sets[s] = <<>>
    /\ ~subs[s].heartbeat /\ ~subs[s].listener /\ ~subs[s].open
    /\ subs[s].out = <<>> /\ subs[s].sendPc = "none"

\* C31: a subscribe for a pollId that references no stored poll is answered
\* 404 (500 if the lookup throws) and changes nothing: the registry and its
\* sets stay as they were and no keep-alive timer is started, also when the
\* poll is created later; so every key of the registry is the id of a
\* stored poll.
C31_MissingPollSubscribeChangesNothing ==
    /\ [][\A s \in Subs :
             MissingPollLookup(s) =>
                /\ subs'[s].pc \in {"notFound", "error"}
                /\ connections' = connections
                /\ sets' = sets
                /\ LeftNothing(s)']_vars
    /\ [](\A s \in Subs : subs[s].pc = "notFound" => LeftNothing(s))
    /\ [](\A p \in DOMAIN connections :
             connections[p] # None => p \in DOMAIN polls)

\* A subscribe for n1 was answered 404 and n1 was created afterwards.
C31_Witness ==
    /\ subs[1].pc = "notFound"
    /\ subs[1].pollId \in NanoIds
    /\ subs[1].pollId \in DOMAIN polls
    /\ created.status = 200 /\ created.body.id = subs[1].pollId

====
